---- MODULE Spec2Model ----
(***************************************************************************)
(* State-machine model of the budget tracker's persistence layer           *)
(* (src/src/database.py): the transactions, categories and                 *)
(* categorization_rules tables, their schema and the operations of class   *)
(* Database, with the handlers of src/src/gui that write rules, set the    *)
(* ignored flag and total the transactions.                                *)
(*                                                                         *)
(* Conventions                                                             *)
(*  - a Python datetime is a record [year, month, day, hour, minute,       *)
(*    second, microsecond];                                                *)
(*  - the TEXT stored in transactions.date is the tuple of the fixed-width *)
(*    fields of datetime.isoformat(): <<Y, M, D, h, m, s>> and, when the   *)
(*    microsecond is not 0, a seventh field; SQLite compares TEXT byte by  *)
(*    byte, which on zero-padded fields is the lexicographic order of the  *)
(*    tuples with a proper prefix smaller;                                 *)
(*  - a description or a rule pattern is a sequence of one-character       *)
(*    strings;                                                             *)
(*  - a monetary amount is a number of cents.  A Decimal read back from    *)
(*    the store is [cents, exact]: exact is FALSE when the value went      *)
(*    through Decimal(float) and the float is not the decimal written.     *)
(***************************************************************************)
EXTENDS Integers, Sequences, FiniteSets, TLC

VARIABLES tables, transactions, nextId, categories, rules, deleted, op

vars == <<tables, transactions, nextId, categories, rules, deleted, op>>

\* tables        the schema of the store: table name -> the names of its columns
\* transactions  the transactions table: id -> row
\* nextId        the id AUTOINCREMENT gives the next row
\* categories    the categories table: name -> [budget_goal, tags]
\* rules         the categorization_rules table, a set of rows
\* deleted       history: the names delete_category removed since a write last
\*               put them on a transaction or in the categories table
\* op            history: the last call made on the store

\* Bounds of the model: rows a run may insert in each specification.
MaxTx == 2
MaxWinTx == 2
MaxRules == 2
MaxRuleTx == 1

\* Python's None, for values that are otherwise strings.
None == "None"

\* NULL and None for values that are otherwise numbers: <<>> against <<n>>.
Null == <<>>

\* NULL and None for a description: the one-element sequence <<None>>, which
\* is the sequence of the characters of no text.
NullText == <<None>>

(***************************************************************************)
(* Text                                                                    *)
(***************************************************************************)
UpperCase == <<"A", "B", "C", "D", "E", "F", "G", "H", "I", "J", "K", "L", "M",
               "N", "O", "P", "Q", "R", "S", "T", "U", "V", "W", "X", "Y", "Z">>

LowerCase == <<"a", "b", "c", "d", "e", "f", "g", "h", "i", "j", "k", "l", "m",
               "n", "o", "p", "q", "r", "s", "t", "u", "v", "w", "x", "y", "z">>

\* str.lower() on one character (SQLite's LIKE folds the same ASCII letters).
LowerChar(c) ==
    IF \E i \in 1..Len(UpperCase) : UpperCase[i] = c
    THEN LowerCase[CHOOSE i \in 1..Len(UpperCase) : UpperCase[i] = c]
    ELSE c

\* str.lower()
Lower(s) == [i \in 1..Len(s) |-> LowerChar(s[i])]

\* Python's `sub in s`
Contains(sub, s) ==
    \E i \in 0..(Len(s) - Len(sub)) :
        \A j \in 1..Len(sub) : s[i + j] = sub[j]

\* s.replace('%', '\\%').replace('_', '\\_'), and the same two replace() calls
\* of the SQL text: a backslash is put before every % and every _.
RECURSIVE EscapeLike(_)
EscapeLike(s) ==
    IF s = <<>> THEN <<>>
    ELSE IF Head(s) \in {"%", "_"}
         THEN <<"\\", Head(s)>> \o EscapeLike(Tail(s))
         ELSE <<Head(s)>> \o EscapeLike(Tail(s))

\* SQLite's `s LIKE pat` with no ESCAPE clause: % is any run of characters,
\* _ is any one character, a backslash is an ordinary character, letters
\* compare case-insensitively.
RECURSIVE Like(_, _)
Like(s, pat) ==
    IF pat = <<>> THEN s = <<>>
    ELSE IF Head(pat) = "%"
         THEN Like(s, Tail(pat)) \/ (s # <<>> /\ Like(Tail(s), pat))
    ELSE IF s = <<>> THEN FALSE
    ELSE IF Head(pat) = "_" THEN Like(Tail(s), Tail(pat))
    ELSE LowerChar(Head(pat)) = LowerChar(Head(s)) /\ Like(Tail(s), Tail(pat))

(***************************************************************************)
(* Dates                                                                   *)
(***************************************************************************)
DateTime(y, mo, d, h, mi, s, us) ==
    [year |-> y, month |-> mo, day |-> d, hour |-> h, minute |-> mi,
     second |-> s, microsecond |-> us]

\* datetime.isoformat(): the fraction is written only when it is not zero.
IsoFormat(d) ==
    LET base == <<d.year, d.month, d.day, d.hour, d.minute, d.second>>
    IN  IF d.microsecond = 0 THEN base ELSE Append(base, d.microsecond)

\* datetime.fromisoformat(): reads the text with or without a fraction.
FromIsoFormat(text) ==
    DateTime(text[1], text[2], text[3], text[4], text[5], text[6],
             IF Len(text) > 6 THEN text[7] ELSE 0)

\* datetime.strptime(text, "%Y-%m-%dT%H:%M:%S") raises ValueError
\* ("unconverted data remains") on a text that carries a fraction.
StrptimeFails(text) == Len(text) > 6

Strptime(text) ==
    DateTime(text[1], text[2], text[3], text[4], text[5], text[6], 0)

\* date.strftime("%Y-%m-%dT%H:%M:%S"): the fraction is never written.
Strftime(d) == <<d.year, d.month, d.day, d.hour, d.minute, d.second>>

\* SQLite's < on two TEXT values.
TextLess(a, b) ==
    \E i \in 1..Len(b) :
        /\ Len(a) >= i - 1
        /\ \A j \in 1..(i - 1) : a[j] = b[j]
        /\ (Len(a) = i - 1 \/ a[i] < b[i])

\* Decimal(str(row[2])): str() of the stored number is its shortest decimal
\* repr, which Decimal reads exactly.
DecimalOfStr(cents) == [cents |-> cents, exact |-> TRUE]

\* Decimal(row[2]): the stored number is an int or a binary double, and
\* Decimal(float) is the double's exact binary value, which is the decimal
\* written only when the cents are a multiple of a quarter.
DecimalOfNumber(cents) == [cents |-> cents, exact |-> cents % 25 = 0]

\* str(amount) bound to a DECIMAL (NUMERIC affinity) column: the number.
SqlNumeric(amount) == amount.cents

Money(cents) == [cents |-> cents, exact |-> TRUE]

(***************************************************************************)
(* Rows                                                                    *)
(***************************************************************************)
Ids == DOMAIN transactions

\* The sequences a SELECT ... ORDER BY date may return for the rows `ids`:
\* every arrangement in which the date texts never decrease (rows of equal
\* date come in an order SQL leaves open).
OrderByDate(ids) ==
    {s \in [1..Cardinality(ids) -> ids] :
        /\ \A i, j \in DOMAIN s : i # j => s[i] # s[j]
        /\ \A i, j \in DOMAIN s :
              i < j => ~TextLess(transactions[s[j]].date, transactions[s[i]].date)}

\* ORDER BY date DESC
OrderByDateDesc(ids) ==
    {s \in [1..Cardinality(ids) -> ids] :
        /\ \A i, j \in DOMAIN s : i # j => s[i] # s[j]
        /\ \A i, j \in DOMAIN s :
              i < j => ~TextLess(transactions[s[i]].date, transactions[s[j]].date)}

\* The Transaction built from a row by get_transactions.
TransactionOfRowStrptime(id) ==
    LET row == transactions[id]
    IN  [id |-> id, date |-> Strptime(row.date),
         amount |-> DecimalOfStr(row.amount),
         description |-> row.description, category |-> row.category,
         transaction_type |-> row.transaction_type, ignored |-> row.ignored]

\* The Transaction built from a row by the month and year queries.
TransactionOfRow(id) ==
    LET row == transactions[id]
    IN  [id |-> id, date |-> FromIsoFormat(row.date),
         amount |-> DecimalOfNumber(row.amount),
         description |-> row.description, category |-> row.category,
         transaction_type |-> row.transaction_type, ignored |-> row.ignored]

\* The row add_transaction inserts: the INSERT names no `ignored` column, so
\* the column takes its DEFAULT 0.
RowOfTransaction(t) ==
    [date |-> IsoFormat(t.date), amount |-> SqlNumeric(t.amount),
     description |-> t.description, category |-> t.category,
     transaction_type |-> t.transaction_type, ignored |-> FALSE]

\* The last call made on the store: its name, its argument, the exception it
\* raised (None when it returned) and what it returned.
Call(name, arg, error, result) ==
    [name |-> name, arg |-> arg, error |-> error, result |-> result]

NoOp == Call("init", None, None, <<>>)

\* The columns of the three tables as _create_tables creates them.
CurrentSchema ==
    [ transactions |-> {"id", "date", "amount", "description", "category",
                        "transaction_type", "ignored"},
      categories |-> {"name", "budget_goal", "tags"},
      categorization_rules |-> {"pattern", "category", "amount",
                                "amount_tolerance", "priority"} ]

Init ==
    /\ tables = CurrentSchema
    /\ transactions = << >>
    /\ nextId = 1
    /\ categories = << >>
    /\ rules = {}
    /\ deleted = {}
    /\ op = NoOp

(***************************************************************************)
(* Transaction store                                                       *)
(***************************************************************************)
\* Database.add_transaction
AddTransaction(t) ==
    /\ transactions' = transactions @@ (nextId :> RowOfTransaction(t))
    /\ nextId' = nextId + 1
    /\ deleted' = deleted \ {t.category}
    /\ op' = Call("add_transaction", t, None, nextId)
    /\ UNCHANGED <<tables, categories, rules>>

\* Database.get_transactions.  arg.added holds the transaction the previous
\* call added, when that call was add_transaction.
GetTransactions ==
    /\ LET arg == [added |-> IF op.name = "add_transaction"
                             THEN <<op.arg>> ELSE <<>>]
       IN  IF \E id \in Ids : StrptimeFails(transactions[id].date)
           THEN op' = Call("get_transactions", arg, "ValueError", <<>>)
           ELSE \E s \in OrderByDateDesc(Ids) :
                   op' = Call("get_transactions", arg, None,
                              [i \in DOMAIN s |-> TransactionOfRowStrptime(s[i])])
    /\ UNCHANGED <<tables, transactions, nextId, categories, rules, deleted>>

\* The bounds of the month window, as get_transactions_for_month computes them.
MonthStart(date) == IsoFormat([date EXCEPT !.day = 1])

MonthEnd(date) ==
    IF date.month = 12
    THEN IsoFormat([date EXCEPT !.year = @ + 1, !.month = 1, !.day = 1])
    ELSE IsoFormat([date EXCEPT !.month = @ + 1, !.day = 1])

\* WHERE date >= ? AND date < ?
RowsBetween(start, end) ==
    {id \in Ids : /\ ~TextLess(transactions[id].date, start)
                  /\ TextLess(transactions[id].date, end)}

MonthRows(date) == RowsBetween(MonthStart(date), MonthEnd(date))

YearStart(year) == IsoFormat(DateTime(year, 1, 1, 0, 0, 0, 0))

\* A window that ends on the year's last day instead of the next year's first.
YearEndLastDay(year) == IsoFormat(DateTime(year, 12, 31, 0, 0, 0, 0))

YearEnd(year) == IsoFormat(DateTime(year + 1, 1, 1, 0, 0, 0, 0))

YearRows(year) == RowsBetween(YearStart(year), YearEnd(year))

\* Database.get_transactions_for_month
GetTransactionsForMonth(date) ==
    /\ \E s \in OrderByDate(MonthRows(date)) :
          op' = Call("get_transactions_for_month", date, None,
                     [i \in DOMAIN s |-> TransactionOfRow(s[i])])
    /\ UNCHANGED <<tables, transactions, nextId, categories, rules, deleted>>

\* Database.get_transactions_for_year
GetTransactionsForYear(year) ==
    /\ \E s \in OrderByDate(YearRows(year)) :
          op' = Call("get_transactions_for_year", year, None,
                     [i \in DOMAIN s |-> TransactionOfRow(s[i])])
    /\ UNCHANGED <<tables, transactions, nextId, categories, rules, deleted>>

\* An INSERT OR REPLACE INTO categories (name): the row is written anew, with
\* no goal and no tags, whether or not it existed.
ReplaceCategory(name) ==
    [c \in (DOMAIN categories) \cup {name} |->
        IF c = name THEN [budget_goal |-> Null, tags |-> Null]
        ELSE categories[c]]

\* INSERT OR IGNORE INTO categories (name): a new row has no goal and no tags,
\* an existing row is left as it is.
EnsureCategory(name) ==
    IF name \in DOMAIN categories THEN categories
    ELSE categories @@ (name :> [budget_goal |-> Null, tags |-> Null])

\* Database.update_transaction_category: the category row is ensured and the
\* UPDATE changes the row of that id, if there is one; the connection's
\* context manager commits both.
UpdateTransactionCategory(transaction_id, new_category) ==
    /\ categories' = EnsureCategory(new_category)
    /\ transactions' =
          [id \in Ids |->
              IF id = transaction_id
              THEN [transactions[id] EXCEPT !.category = new_category]
              ELSE transactions[id]]
    /\ deleted' = deleted \ {new_category}
    /\ op' = Call("update_transaction_category",
                  <<transaction_id, new_category>>, None, <<>>)
    /\ UNCHANGED <<tables, nextId, rules>>

\* WHERE date = ? AND amount = ? AND description = ? AND transaction_type = ?
\* with the date bound as strftime() text and the amount as str(amount).
RowsByAttributes(date, amount, description, transaction_type) ==
    {id \in Ids :
        /\ transactions[id].date = Strftime(date)
        /\ transactions[id].amount = SqlNumeric(amount)
        /\ transactions[id].description = description
        /\ transactions[id].transaction_type = transaction_type}

\* A connection that commits every statement as it is executed.
ConnectionExitAutocommit(before, pending, raised) == pending

\* `with sqlite3.connect(...) as conn:` around the body of a method: leaving
\* the block on an exception rolls back what the body wrote and did not commit,
\* leaving it normally commits.
ConnectionExit(before, pending, raised) ==
    IF raised THEN before ELSE pending

\* Database.update_transaction_by_attributes: the category row is ensured,
\* then the UPDATE runs; when it changes no row the method raises inside the
\* `with` block, whose exit rolls the INSERT of the category back; otherwise
\* both are committed.
UpdateTransactionByAttributes(date, amount, description, category, transaction_type) ==
    LET hit == RowsByAttributes(date, amount, description, transaction_type)
        arg == <<date, amount, description, category, transaction_type>>
        raised == hit = {}
    IN  /\ categories' = ConnectionExit(categories, EnsureCategory(category),
                                        raised)
        /\ transactions' =
              [id \in Ids |->
                  IF id \in hit
                  THEN [transactions[id] EXCEPT !.category = category]
                  ELSE transactions[id]]
        /\ deleted' = IF raised THEN deleted ELSE deleted \ {category}
        /\ op' = Call("update_transaction_by_attributes", arg,
                      IF raised THEN "No matching transaction found" ELSE None,
                      <<>>)
        /\ UNCHANGED <<tables, nextId, rules>>

\* A delete_category that also deletes the transactions of the category.
DeleteCategoryCascade(category) ==
    /\ categories' = [c \in DOMAIN categories \ {category} |-> categories[c]]
    /\ transactions' = [id \in {i \in Ids : transactions[i].category # category}
                           |-> transactions[id]]
    /\ deleted' = deleted \cup {category}
    /\ op' = Call("delete_category", category, None, <<>>)
    /\ UNCHANGED <<tables, nextId, rules>>

\* Database.delete_category
DeleteCategory(category) ==
    /\ categories' = [c \in DOMAIN categories \ {category} |-> categories[c]]
    /\ deleted' = deleted \cup {category}
    /\ op' = Call("delete_category", category, None, <<>>)
    /\ UNCHANGED <<tables, transactions, nextId, rules>>

\* Database.add_category
AddCategory(category) ==
    /\ categories' = EnsureCategory(category)
    /\ deleted' = deleted \ {category}
    /\ op' = Call("add_category", category, None, Null)
    /\ UNCHANGED <<tables, transactions, nextId, rules>>

\* Database.set_budget_goal: INSERT ... ON CONFLICT(name) DO UPDATE SET
\* budget_goal.  The goal is bound as str(amount) to a DECIMAL column; a new
\* row has no tags, an existing row keeps its tags.
SetBudgetGoal(category, amount) ==
    /\ categories' =
          [c \in (DOMAIN categories) \cup {category} |->
              IF c # category THEN categories[c]
              ELSE [budget_goal |-> <<SqlNumeric(amount)>>,
                    tags |-> IF c \in DOMAIN categories
                             THEN categories[c].tags ELSE Null]]
    /\ deleted' = deleted \ {category}
    /\ op' = Call("set_budget_goal", <<category, amount>>, None, Null)
    /\ UNCHANGED <<tables, transactions, nextId, rules>>

\* Database.set_category_tags: a new row has no goal and the tags given; an
\* existing row keeps its goal and takes the tags given unless they are the
\* empty text.  The tags are a sequence of characters; NULL is the empty one
\* (every reader of the column takes COALESCE(tags, '')).
SetCategoryTags(category, tags) ==
    /\ categories' =
          [c \in (DOMAIN categories) \cup {category} |->
              IF c # category THEN categories[c]
              ELSE IF c \notin DOMAIN categories
                   THEN [budget_goal |-> Null, tags |-> tags]
                   ELSE [categories[c] EXCEPT
                            !.tags = IF tags # <<>> THEN tags ELSE @]]
    /\ deleted' = deleted \ {category}
    /\ op' = Call("set_category_tags", <<category, tags>>, None, Null)
    /\ UNCHANGED <<tables, transactions, nextId, rules>>

\* The names `cat and cat.strip()` is false for: the empty and the blank ones.
BlankNames == {"", " "}

\* The names of the categories table alone.
CategoryTableNames == (DOMAIN categories) \ (BlankNames \cup {None})

\* The names get_all_categories collects: those of the categories table and
\* those carried by a transaction, without NULL and without the blank ones.
AllCategoryNames ==
    ((DOMAIN categories) \cup {transactions[id].category : id \in Ids})
        \ (BlankNames \cup {None})

\* Database.get_all_categories.  The result is the sorted list of the names;
\* the model keeps the set of its elements.  arg.deleted holds the name the
\* previous call deleted, when that call was delete_category.
GetAllCategories ==
    /\ op' = Call("get_all_categories",
                  [deleted |-> IF op.name = "delete_category"
                               THEN <<op.arg>> ELSE <<>>],
                  None, AllCategoryNames)
    /\ UNCHANGED <<tables, transactions, nextId, categories, rules, deleted>>

\* Database.delete_transaction: DELETE ... WHERE id = ?.  rows_affected is
\* printed; the method returns None.  arg.before holds the rows as they were.
DeleteTransaction(transaction_id) ==
    /\ transactions' = [id \in Ids \ {transaction_id} |-> transactions[id]]
    /\ op' = Call("delete_transaction",
                  [id |-> transaction_id, before |-> transactions], None, Null)
    /\ UNCHANGED <<tables, nextId, categories, rules, deleted>>

\* WHERE date = ? AND amount = ? AND description = ? AND category = ?
\* AND transaction_type = ? with the date bound as the text given and the
\* amount as the str given.
RowsByAllAttributes(date, amount, description, category, transaction_type) ==
    {id \in Ids :
        /\ transactions[id].date = date
        /\ transactions[id].amount = SqlNumeric(amount)
        /\ transactions[id].description = description
        /\ transactions[id].category = category
        /\ transactions[id].transaction_type = transaction_type}

\* Database.delete_transaction_by_attributes: one DELETE over every row the
\* WHERE selects; the method returns None.
DeleteTransactionByAttributes(date, amount, description, category, transaction_type) ==
    LET hit == RowsByAllAttributes(date, amount, description, category,
                                   transaction_type)
    IN  /\ transactions' = [id \in Ids \ hit |-> transactions[id]]
        /\ op' = Call("delete_transaction_by_attributes",
                      [date |-> date, amount |-> amount,
                       description |-> description, category |-> category,
                       transaction_type |-> transaction_type,
                       before |-> transactions], None, Null)
        /\ UNCHANGED <<tables, nextId, categories, rules, deleted>>

(***************************************************************************)
(* Schema setup                                                            *)
(***************************************************************************)
\* The columns the migration reads from a rule table that has no amount.
OldRuleColumns == {"pattern", "category", "priority"}

\* PRAGMA table_info(categorization_rules): the names of the columns, none
\* for a table that does not exist.
RuleTableColumns ==
    IF "categorization_rules" \in DOMAIN tables
    THEN tables["categorization_rules"] ELSE {}

\* A setup that rebuilds the rule table on every start.
AlwaysMigrate(columns) == TRUE

\* if "amount" not in columns
NeedsMigration(columns) == "amount" \notin columns

\* amount_tolerance DECIMAL DEFAULT 0.01, in cents.
DefaultTolerance == 1

\* A reinsertion that names only pattern and category.
MigratedRuleDefaultPriority(r) ==
    [pattern |-> r.pattern, category |-> r.category, amount |-> Null,
     tolerance |-> <<DefaultTolerance>>, priority |-> 0]

\* INSERT INTO categorization_rules (pattern, category, priority) of a row
\* read from the old table: the amount is NULL and the tolerance its DEFAULT.
MigratedRule(r) ==
    [pattern |-> r.pattern, category |-> r.category, amount |-> Null,
     tolerance |-> <<DefaultTolerance>>, priority |-> r.priority]

\* Database._create_tables, run by Database.__init__.  When the rule table
\* has no amount column its rows are read, the table is dropped, created
\* again and the rows are put back; the SELECT of the rows raises
\* OperationalError when there is no such table, before anything is written.
\* Then the two other tables are created if they do not exist.  arg holds the
\* store as it was.
CreateTables ==
    LET migrate == NeedsMigration(RuleTableColumns)
        before == [tables |-> tables, transactions |-> transactions,
                   categories |-> categories, rules |-> rules]
    IN  IF migrate /\ "categorization_rules" \notin DOMAIN tables
        THEN /\ op' = Call("_create_tables", before, "OperationalError", Null)
             /\ UNCHANGED <<tables, transactions, nextId, categories, rules,
                            deleted>>
        ELSE /\ rules' = IF migrate THEN {MigratedRule(r) : r \in rules}
                         ELSE rules
             /\ tables' =
                   [t \in DOMAIN CurrentSchema |->
                       IF t \in DOMAIN tables
                          /\ ~(migrate /\ t = "categorization_rules")
                       THEN tables[t] ELSE CurrentSchema[t]]
             /\ op' = Call("_create_tables", before, None, Null)
             /\ UNCHANGED <<transactions, nextId, categories, deleted>>

(***************************************************************************)
(* The ignored flag and the aggregates                                     *)
(*                                                                         *)
(* A total is a number of cents; a dict of totals is a function from its   *)
(* keys to cents.                                                          *)
(***************************************************************************)
Abs(x) == IF x < 0 THEN -x ELSE x

\* sum(f[x] for x in S)
RECURSIVE SumOver(_, _)
SumOver(S, f) ==
    IF S = {} THEN 0
    ELSE LET x == CHOOSE y \in S : TRUE
         IN  f[x] + SumOver(S \ {x}, f)

\* Transaction.is_expense
IsExpense(t) == t.transaction_type = "expense" /\ ~t.ignored

\* Transaction.is_income
IsIncome(t) == t.transaction_type = "income" /\ ~t.ignored

\* The values of the row as the transaction list shows them, parsed back by
\* the handlers of the list: the date is shown as %Y-%m-%d and read back as
\* the midnight of that day.
DisplayedDate(id) ==
    LET d == FromIsoFormat(transactions[id].date)
    IN  DateTime(d.year, d.month, d.day, 0, 0, 0, 0)

\* MainWindow._toggle_ignored_selected with the row of `id` selected and the
\* dialog confirmed: the rows are found by the values shown, the new state is
\* the opposite of that of the row the SELECT returns first, and the UPDATE
\* sets it on every row found.  No row found: nothing is written.
ToggleIgnoredSelected(id) ==
    LET row == transactions[id]
        hit == RowsByAllAttributes(Strftime(DisplayedDate(id)), Money(row.amount),
                                   row.description, row.category,
                                   row.transaction_type)
    IN  /\ IF hit = {}
           THEN UNCHANGED transactions
           ELSE \E first \in hit :
                   transactions' =
                      [i \in Ids |->
                          IF i \in hit
                          THEN [transactions[i] EXCEPT
                                   !.ignored = ~transactions[first].ignored]
                          ELSE transactions[i]]
        /\ op' = Call("_toggle_ignored_selected", id, None, Null)
        /\ UNCHANGED <<tables, nextId, categories, rules, deleted>>

\* Database.get_category_totals: SUM(amount) ... WHERE transaction_type =
\* 'expense' AND (ignored = 0 OR ignored IS NULL) GROUP BY category.
GetCategoryTotals ==
    LET rows == {id \in Ids : /\ transactions[id].transaction_type = "expense"
                              /\ ~transactions[id].ignored}
        amount == [id \in rows |-> transactions[id].amount]
    IN  /\ op' = Call("get_category_totals", None, None,
                      [c \in {transactions[id].category : id \in rows} |->
                          SumOver({id \in rows : transactions[id].category = c},
                                  amount)])
        /\ UNCHANGED <<tables, transactions, nextId, categories, rules, deleted>>

\* GraphingWindow._get_monthly_totals over the transactions built from the
\* rows `ids`: a transaction that is an expense is subtracted from the total
\* of its month, any other is added.  The key "%Y-%m" is <<year, month>>.
MonthlyTotals(ids, category) ==
    LET kept == {id \in ids : category = None
                                 \/ TransactionOfRow(id).category = category}
        key(id) == <<TransactionOfRow(id).date.year,
                     TransactionOfRow(id).date.month>>
        signed == [id \in kept |->
                      IF IsExpense(TransactionOfRow(id))
                      THEN 0 - TransactionOfRow(id).amount.cents
                      ELSE TransactionOfRow(id).amount.cents]
    IN  [k \in {key(id) : id \in kept} |->
            SumOver({id \in kept : key(id) = k}, signed)]

\* GraphingWindow._refresh_graphs, for one of the two years it draws: the
\* monthly net totals of the year's transactions.
GetMonthlyTotals(year, category) ==
    /\ op' = Call("_get_monthly_totals", [year |-> year, category |-> category],
                  None, MonthlyTotals(YearRows(year), category))
    /\ UNCHANGED <<tables, transactions, nextId, categories, rules, deleted>>

\* YearComparisonWindow._calculate_category_totals over the transactions
\* built from the rows `ids`.
CategoryTotals(ids) ==
    LET rows == {id \in ids : IsExpense(TransactionOfRow(id))}
        amount == [id \in rows |-> TransactionOfRow(id).amount.cents]
    IN  [c \in {TransactionOfRow(id).category : id \in rows} |->
            SumOver({id \in rows : TransactionOfRow(id).category = c}, amount)]

\* YearComparisonWindow._refresh_comparison, for one of the two years it
\* compares.
CalculateCategoryTotals(year) ==
    /\ op' = Call("_calculate_category_totals", year, None,
                  CategoryTotals(YearRows(year)))
    /\ UNCHANGED <<tables, transactions, nextId, categories, rules, deleted>>

\* Rounding of the quotient num / den, den not 0, to the nearest integer, a
\* tie going to the even one: what format(x, "+.1f") does to a Decimal, with
\* the quotient taken in tenths.
RoundHalfEven(num, den) ==
    LET n == IF den < 0 THEN 0 - num ELSE num
        d == Abs(den)
        q == n \div d
        r == n - q * d
    IN  IF 2 * r < d THEN q
        ELSE IF 2 * r > d THEN q + 1
        ELSE IF q % 2 = 0 THEN q ELSE q + 1

\* The text shown for a percentage: <<tenths of a percent>> for a number
\* formatted "+.1f", the empty tuple for "N/A".
PercentNA == <<>>

\* percent_str of one category row: (difference / last_year_amount) * 100
\* when last_year_amount != 0, "N/A" otherwise.
RowPercent(last_year_amount, this_year_amount) ==
    IF last_year_amount # 0
    THEN <<RoundHalfEven(1000 * (this_year_amount - last_year_amount),
                         last_year_amount)>>
    ELSE PercentNA

\* percent_change of the summary: ((total_this_year / total_last_year) - 1)
\* * 100 if total_last_year != 0 else 0, always formatted as a number.
TotalPercent(total_last_year, total_this_year) ==
    IF total_last_year # 0
    THEN <<RoundHalfEven(1000 * (total_this_year - total_last_year),
                         total_last_year)>>
    ELSE <<0>>

\* YearComparisonWindow._refresh_comparison in the year current_year: one row
\* per category that has a total in either year, and the summary labels.
RefreshComparison(current_year) ==
    LET last_year_totals == CategoryTotals(YearRows(current_year - 1))
        this_year_totals == CategoryTotals(YearRows(current_year))
        all_categories == (DOMAIN last_year_totals) \cup (DOMAIN this_year_totals)
        get(totals, c) == IF c \in DOMAIN totals THEN totals[c] ELSE 0
        total_last_year == SumOver(DOMAIN last_year_totals, last_year_totals)
        total_this_year == SumOver(DOMAIN this_year_totals, this_year_totals)
    IN  /\ op' = Call("_refresh_comparison", current_year, None,
                      [rows |->
                          [c \in all_categories |->
                              [last_year |-> get(last_year_totals, c),
                               this_year |-> get(this_year_totals, c),
                               difference |-> get(this_year_totals, c)
                                                - get(last_year_totals, c),
                               percent |-> RowPercent(get(last_year_totals, c),
                                                      get(this_year_totals, c))]],
                       total |->
                          [last_year |-> total_last_year,
                           this_year |-> total_this_year,
                           difference |-> total_this_year - total_last_year,
                           percent |-> TotalPercent(total_last_year,
                                                    total_this_year)]])
        /\ UNCHANGED <<tables, transactions, nextId, categories, rules, deleted>>

\* Database.get_budget_goals: the goal, in cents, of every category row that
\* has one.
BudgetGoals ==
    [c \in {x \in DOMAIN categories : categories[x].budget_goal # Null} |->
        categories[c].budget_goal[1]]

\* Database.get_category_tags: the tags of every category row whose tags are
\* not empty.
CategoryTags ==
    [c \in {x \in DOMAIN categories : categories[x].tags # <<>>} |->
        categories[c].tags]

\* category_tags.get(category, "").lower()
LoweredTags(category) ==
    IF category \in DOMAIN CategoryTags THEN Lower(CategoryTags[category])
    ELSE <<>>

TextIncome == <<"i", "n", "c", "o", "m", "e">>

TextRevenue == <<"r", "e", "v", "e", "n", "u", "e">>

\* BudgetGoalsWindow._update_totals: `if "income" in tags`
SummaryCountsAsIncome(category) == Contains(TextIncome, LoweredTags(category))

\* GraphingWindow._project_future_months:
\* any(tag in tags.lower() for tag in ["income", "revenue"])
ProjectionCountsAsIncome(category) ==
    \E tag \in {TextIncome, TextRevenue} : Contains(tag, LoweredTags(category))

\* The goal entries of the budget window as _refresh_categories fills them:
\* one per category get_all_categories lists, holding the stored goal when
\* there is one.  The function gives the entries that are not empty.
GoalEntries ==
    [c \in AllCategoryNames \cap DOMAIN BudgetGoals |-> BudgetGoals[c]]

\* BudgetGoalsWindow._update_totals at the time `now`, run by
\* _refresh_categories: the goals of the entries are summed into the income
\* or the expense total by the tags of their category; actual_income and
\* actual_expenses are those of
\* get_transactions_for_month(now.replace(day=1)), which keeps the time of
\* day of `now`; the balances are the differences.
UpdateTotals(now) ==
    LET ids == MonthRows([now EXCEPT !.day = 1])
        amount == [id \in ids |-> TransactionOfRow(id).amount.cents]
        total_budget_income ==
            SumOver({c \in DOMAIN GoalEntries : SummaryCountsAsIncome(c)},
                    GoalEntries)
        total_budget_expense ==
            SumOver({c \in DOMAIN GoalEntries : ~SummaryCountsAsIncome(c)},
                    GoalEntries)
        actual_income ==
            SumOver({id \in ids : IsIncome(TransactionOfRow(id))}, amount)
        actual_expenses ==
            SumOver({id \in ids : IsExpense(TransactionOfRow(id))}, amount)
    IN  /\ op' = Call("_update_totals", now, None,
                      [budget_income |-> total_budget_income,
                       budget_expense |-> total_budget_expense,
                       budget_balance |-> total_budget_income
                                            - total_budget_expense,
                       actual_income |-> actual_income,
                       actual_expenses |-> actual_expenses,
                       actual_balance |-> actual_income - actual_expenses])
        /\ UNCHANGED <<tables, transactions, nextId, categories, rules, deleted>>

\* monthly_budget_net: the goals of the categories the projection counts as
\* income, less the goals of all the others.
MonthlyBudgetNet ==
    SumOver({c \in DOMAIN BudgetGoals : ProjectionCountsAsIncome(c)}, BudgetGoals)
      - SumOver({c \in DOMAIN BudgetGoals : ~ProjectionCountsAsIncome(c)},
                BudgetGoals)

IsLeap(year) == year % 4 = 0 /\ (year % 100 # 0 \/ year % 400 = 0)

DaysInMonth(year, month) ==
    IF month = 2 THEN (IF IsLeap(year) THEN 29 ELSE 28)
    ELSE IF month \in {4, 6, 9, 11} THEN 30 ELSE 31

\* date + timedelta(days=n), n >= 0
RECURSIVE AddDays(_, _)
AddDays(date, n) ==
    IF date.day + n <= DaysInMonth(date.year, date.month)
    THEN [date EXCEPT !.day = @ + n]
    ELSE AddDays([date EXCEPT
                     !.year = IF date.month = 12 THEN @ + 1 ELSE @,
                     !.month = IF date.month = 12 THEN 1 ELSE @ + 1,
                     !.day = 1],
                 n - (DaysInMonth(date.year, date.month) - date.day + 1))

\* A projection that starts from the first month's net instead of zero.
RunningTotalFromNet(net, i) == (i + 1) * net

\* running_total after the i-th pass of the loop: it starts from 0 and the
\* net is added once in every pass.
RECURSIVE RunningTotal(_, _)
RunningTotal(net, i) ==
    IF i = 0 THEN 0 ELSE RunningTotal(net, i - 1) + net

\* GraphingWindow._project_future_months(num_months) of a window built at
\* current_date: the i-th point is dated 30 * (i - 1) days after
\* current_date and keyed by the "%Y-%m" of that day, <<year, month>>.
ProjectFutureMonths(current_date, num_months) ==
    \E monthly_budget_net \in {MonthlyBudgetNet} :
        /\ op' = Call("_project_future_months",
                      [current_date |-> current_date,
                       num_months |-> num_months],
                      None,
                      [i \in 1..num_months |->
                          LET projection_date ==
                                 AddDays(current_date, 30 * (i - 1))
                          IN  [month_key |-> <<projection_date.year,
                                               projection_date.month>>,
                               value |-> RunningTotal(monthly_budget_net, i)]])
        /\ UNCHANGED <<tables, transactions, nextId, categories, rules,
                       deleted>>

(***************************************************************************)
(* Categorization rules                                                    *)
(*                                                                         *)
(* A rule row is [pattern, category, amount, tolerance, priority]; amount  *)
(* and tolerance are Null or <<cents>>.                                    *)
(***************************************************************************)
\* An INSERT that leaves a stored row of the same key where it is.
InsertBeside(rs, row) == rs \cup {row}

\* INSERT OR REPLACE INTO categorization_rules, whose primary key is
\* (pattern, category): a stored row of the same key is deleted first.
InsertOrReplace(rs, row) ==
    {r \in rs : ~(r.pattern = row.pattern /\ r.category = row.category)}
        \cup {row}

\* Database.add_categorization_rule: INSERT OR REPLACE on the primary key
\* (pattern, category).  The callers pass amount and tolerance as the str of
\* a Decimal or as None.
AddCategorizationRule(pattern, category, amount, tolerance, priority) ==
    /\ rules' = InsertOrReplace(rules,
                                [pattern |-> pattern, category |-> category,
                                 amount |-> amount, tolerance |-> tolerance,
                                 priority |-> priority])
    /\ op' = Call("add_categorization_rule", <<pattern, category>>, None, <<>>)
    /\ UNCHANGED <<tables, transactions, nextId, categories, deleted>>

\* Database.delete_categorization_rule
DeleteCategorizationRule(pattern, category) ==
    /\ rules' = {r \in rules : ~(r.pattern = pattern /\ r.category = category)}
    /\ op' = Call("delete_categorization_rule", <<pattern, category>>, None, <<>>)
    /\ UNCHANGED <<tables, transactions, nextId, categories, deleted>>

\* str.strip(): the text without the white space at its two ends.
Whitespace == {" ", "\t", "\n"}

RECURSIVE LStrip(_)
LStrip(s) ==
    IF s # <<>> /\ Head(s) \in Whitespace THEN LStrip(Tail(s)) ELSE s

RECURSIVE RStrip(_)
RStrip(s) ==
    IF s # <<>> /\ s[Len(s)] \in Whitespace
    THEN RStrip(SubSeq(s, 1, Len(s) - 1)) ELSE s

Strip(s) == RStrip(LStrip(s))

\* RulesWindow._add_rule with the entries filled as given: pattern and
\* category are stripped and a rule is added only when neither is empty.  The
\* category entries of the model carry no white space at their ends, so the
\* strip of one is empty when it is blank and the entry itself otherwise.
\* arg.existed records whether a rule of the pair was stored.
RulesWindowAddRule(pattern_entry, category_entry, amount, tolerance, priority) ==
    LET pattern == Strip(pattern_entry)
        category == IF category_entry \in BlankNames THEN "" ELSE category_entry
        arg == [pattern |-> pattern, category |-> category,
                existed |-> \E r \in rules : /\ r.pattern = pattern
                                              /\ r.category = category]
    IN  IF pattern = <<>> \/ category = ""
        THEN /\ op' = Call("_add_rule", arg,
                           "Pattern and category are required", Null)
             /\ UNCHANGED <<tables, transactions, nextId, categories, rules,
                            deleted>>
        ELSE /\ rules' = InsertOrReplace(rules,
                             [pattern |-> pattern, category |-> category,
                              amount |-> amount, tolerance |-> tolerance,
                              priority |-> priority])
             /\ op' = Call("_add_rule", arg, None, Null)
             /\ UNCHANGED <<tables, transactions, nextId, categories, deleted>>

\* MainWindow._show_rule_dialog.on_submit: the category is the one chosen for
\* the transaction, the pattern entry is stripped and must not be empty, an
\* empty tolerance entry is "0.01", an empty priority entry is 0.
RuleDialogSubmit(pattern_entry, category, amount, tolerance_entry, priority) ==
    LET pattern == Strip(pattern_entry)
        arg == [pattern |-> pattern, category |-> category,
                existed |-> \E r \in rules : /\ r.pattern = pattern
                                              /\ r.category = category]
    IN  IF pattern = <<>>
        THEN /\ op' = Call("on_submit", arg, "Pattern is required", Null)
             /\ UNCHANGED <<tables, transactions, nextId, categories, rules,
                            deleted>>
        ELSE /\ rules' = InsertOrReplace(rules,
                             [pattern |-> pattern, category |-> category,
                              amount |-> amount,
                              tolerance |-> IF tolerance_entry = Null
                                            THEN <<1>> ELSE tolerance_entry,
                              priority |-> priority])
             /\ op' = Call("on_submit", arg, None, Null)
             /\ UNCHANGED <<tables, transactions, nextId, categories, deleted>>

\* RulesWindow._delete_rule with the row of the stored rule r selected and
\* the dialog confirmed.
RulesWindowDeleteRule(r) == DeleteCategorizationRule(r.pattern, r.category)

\* The sequences SELECT ... FROM categorization_rules ORDER BY priority DESC
\* may return: the query names no second key, so rules of equal priority come
\* in whatever order the engine scans the rows.
OrderByPriorityDesc(rs) ==
    {s \in [1..Cardinality(rs) -> rs] :
        /\ \A i, j \in DOMAIN s : i # j => s[i] # s[j]
        /\ \A i, j \in DOMAIN s : i < j => s[i].priority >= s[j].priority}

\* WHERE ? LIKE '%' || replace(replace(pattern, '%', '\%'), '_', '\_') || '%'
\* with the escaped description as the parameter.
LikeMatches(description, pattern) ==
    Like(EscapeLike(description), <<"%">> \o EscapeLike(pattern) \o <<"%">>)

\* Database.auto_categorize_transaction: ORDER BY priority DESC LIMIT 1 over
\* the rules the LIKE selects; None when it selects none.  arg.again holds
\* the previous call's answer when that call resolved the same description.
AutoCategorizeTransaction(description) ==
    LET selected == {r \in rules : LikeMatches(description, r.pattern)}
        again == IF op.name = "auto_categorize_transaction"
                    /\ op.arg.description = description
                 THEN <<op.result>> ELSE <<>>
        arg == [description |-> description, again |-> again]
    IN  /\ IF selected = {}
           THEN op' = Call("auto_categorize_transaction", arg, None, None)
           ELSE \E s \in OrderByPriorityDesc(selected) :
                   op' = Call("auto_categorize_transaction", arg, None,
                              s[1].category)
        /\ UNCHANGED <<tables, transactions, nextId, categories, rules, deleted>>

\* The categories auto_categorize_transaction may return for a description
\* under the stored rules: None when the LIKE selects no rule, else the
\* category of a rule that ORDER BY priority DESC may put first.
Resolutions(description) ==
    LET selected == {r \in rules : LikeMatches(description, r.pattern)}
    IN  IF selected = {} THEN {None}
        ELSE {s[1].category : s \in OrderByPriorityDesc(selected)}

\* Decimal(str(tolerance or "0.01")): a NULL tolerance and a tolerance of 0
\* are both falsy, and both are read as 0.01.
EffectiveTolerance(tolerance) ==
    IF tolerance = Null \/ tolerance = <<0>> THEN 1 ELSE tolerance[1]

\* The inner loop's test of one rule against one row: the pattern is in the
\* description, both lowered, and the amount, when the rule has one, is not
\* further than the tolerance.
RuleMatches(r, row) ==
    /\ Contains(Lower(r.pattern), Lower(row.description))
    /\ r.amount # Null =>
          ~(Abs(row.amount - r.amount[1]) > EffectiveTolerance(r.tolerance))

\* An inner loop that leaves alone a row already categorized by hand.
AppliedCategoryKeepAssigned(order, row) ==
    IF row.category \in {"", "Uncategorized"}
       /\ \E i \in DOMAIN order : RuleMatches(order[i], row)
    THEN order[CHOOSE i \in DOMAIN order :
                  /\ RuleMatches(order[i], row)
                  /\ \A j \in 1..(i - 1) : ~RuleMatches(order[j], row)].category
    ELSE row.category

\* The category a row has after the inner loop: that of the first rule of
\* `order` that matches, whatever the row's category was; its own category
\* when no rule matches.
AppliedCategory(order, row) ==
    IF \E i \in DOMAIN order : RuleMatches(order[i], row)
    THEN order[CHOOSE i \in DOMAIN order :
                  /\ RuleMatches(order[i], row)
                  /\ \A j \in 1..(i - 1) : ~RuleMatches(order[j], row)].category
    ELSE row.category

\* updates_made: one per row that some rule matched, whether or not the UPDATE
\* changed the row's category.
UpdatesMade(order) ==
    Cardinality({id \in Ids : \E i \in DOMAIN order :
                                 RuleMatches(order[i], transactions[id])})

\* The ways the outer loop may end.  description.lower() raises
\* AttributeError on a NULL description; the inner loop evaluates it for the
\* first rule, so a pass over no rules never raises.  The SELECT of the rows
\* names no order, so the rows gone through before the first one without a
\* description may be any of those that have one.
PassEnds(order) ==
    LET bad == {id \in Ids : transactions[id].description = NullText}
    IN  IF order = <<>> \/ bad = {}
        THEN {[processed |-> Ids, raised |-> FALSE]}
        ELSE {[processed |-> S, raised |-> TRUE] : S \in SUBSET (Ids \ bad)}

\* The rows as the UPDATEs of the pass have written them when it ends.
PassWrites(order, processed) ==
    [id \in Ids |->
        IF id \in processed
        THEN [transactions[id] EXCEPT
                 !.category = AppliedCategory(order, transactions[id])]
        ELSE transactions[id]]

\* Database.apply_rules_to_existing_transactions.  arg records the rules as
\* fetched, the rows as fetched, whether the previous call on the store was
\* this one too, and the rows the outer loop had gone through when it ended;
\* result is updates_made (the method prints it when it reaches the end).
ApplyRulesToExistingTransactions ==
    \E order \in OrderByPriorityDesc(rules) :
      \E end \in PassEnds(order) :
        /\ transactions' = ConnectionExit(transactions,
                                          PassWrites(order, end.processed),
                                          end.raised)
        /\ deleted' = deleted \ {transactions'[id].category : id \in
                         {i \in Ids : transactions'[i].category # transactions[i].category}}
        /\ op' = Call("apply_rules_to_existing_transactions",
                      [order |-> order, before |-> transactions,
                       repeated |-> op.name = "apply_rules_to_existing_transactions",
                       processed |-> end.processed],
                      IF end.raised THEN "AttributeError" ELSE None,
                      IF end.raised
                      THEN Cardinality({id \in end.processed :
                              \E i \in DOMAIN order :
                                  RuleMatches(order[i], transactions[id])})
                      ELSE UpdatesMade(order))
        /\ UNCHANGED <<tables, nextId, categories, rules>>

(***************************************************************************)
(* The two ways the main window creates transactions                       *)
(*                                                                         *)
(* The text of an amount entry or an Amount field is Null when Decimal()   *)
(* cannot read it and <<cents>>, with its sign, when it can.  A Date field *)
(* is Null when no format of _parse_date reads it and <<datetime>> when    *)
(* one does.  A field after the end of a short row is None (NullText for a *)
(* Description).                                                           *)
(***************************************************************************)
\* MainWindow._add_transaction with the entries filled as given, at the time
\* `now`: an amount Decimal() cannot read is refused; the description and the
\* category are stripped, an empty category is resolved by the rules, and the
\* transaction is added when neither is empty.  The sign of the amount is not
\* looked at.  The category entries of the model carry no white space at
\* their ends.
MainWindowAddTransaction(amount_entry, desc_entry, category_entry, type_var, now) ==
    LET description == Strip(desc_entry)
        typed == IF category_entry \in BlankNames THEN "" ELSE category_entry
        arg == [amount |-> amount_entry, description |-> description,
                category |-> typed, transaction_type |-> type_var]
    IN  IF amount_entry = Null
        THEN /\ op' = Call("_add_transaction", arg,
                           "Please enter a valid amount", Null)
             /\ UNCHANGED <<tables, transactions, nextId, categories, rules,
                            deleted>>
        ELSE \E auto \in (IF typed = "" THEN Resolutions(description)
                          ELSE {None}) :
               LET category == IF typed # "" THEN typed
                               ELSE IF auto # None THEN auto ELSE ""
               IN  IF description = <<>> \/ category = ""
                   THEN /\ op' = Call("_add_transaction", arg,
                                      "Please fill in all fields", Null)
                        /\ UNCHANGED <<tables, transactions, nextId, categories,
                                       rules, deleted>>
                   ELSE /\ transactions' = transactions @@
                              (nextId :> RowOfTransaction(
                                  [id |-> None, date |-> now,
                                   amount |-> Money(amount_entry[1]),
                                   description |-> description,
                                   category |-> category,
                                   transaction_type |-> type_var,
                                   ignored |-> FALSE]))
                        /\ nextId' = nextId + 1
                        /\ deleted' = deleted \ {category}
                        /\ op' = Call("_add_transaction", arg, None, Null)
                        /\ UNCHANGED <<tables, categories, rules>>

\* The rows of a file whose processing raises AttributeError, which only the
\* outer handler of import_transactions catches: the amount is read, then
\* row.get('Type', '').strip() fails on a missing Type field, or
\* auto_categorize_transaction fails on a missing Description.
RowAborts(row) ==
    /\ row.Amount # Null
    /\ \/ row.Type = None
       \/ row.Type \in BlankNames /\ row.Description = NullText

\* The rows the inner handler skips: _parse_amount or _parse_date raised
\* ValueError.
RowSkipped(row) == row.Amount = Null \/ row.Date = Null

\* The Transaction built from a row; `resolved` is what
\* auto_categorize_transaction returned when it was asked.
RowTransaction(row, resolved) ==
    [id |-> None, date |-> row.Date[1],
     amount |-> Money(Abs(row.Amount[1])),
     description |-> row.Description,
     category |-> IF row.Type \notin BlankNames THEN row.Type
                  ELSE IF resolved \notin {None, ""} THEN resolved
                  ELSE "Uncategorized",
     transaction_type |-> IF row.Amount[1] < 0 THEN "expense" ELSE "income",
     ignored |-> FALSE]

RECURSIVE ImportedFrom(_, _, _)
ImportedFrom(file, resolved, i) ==
    IF i > Len(file) THEN <<>>
    ELSE (IF RowSkipped(file[i]) THEN <<>>
          ELSE <<RowTransaction(file[i], resolved[i])>>)
         \o ImportedFrom(file, resolved, i + 1)

\* CSVHandler.import_transactions: the transactions of the rows that can be
\* read, in the order of the file; none at all when a row raised anything but
\* ValueError and KeyError.
ImportTransactions(file, resolved) ==
    IF \E i \in DOMAIN file : RowAborts(file[i]) THEN <<>>
    ELSE ImportedFrom(file, resolved, 1)

\* MainWindow._import_csv with the file chosen: every transaction the import
\* returns is added.  result is the number added.
ImportCsv(file) ==
    \E resolved \in [DOMAIN file -> {r.category : r \in rules} \cup {None}] :
        /\ \A i \in DOMAIN file :
              resolved[i] \in
                 (IF file[i].Amount # Null /\ file[i].Type \in BlankNames
                     /\ file[i].Description # NullText
                  THEN Resolutions(file[i].Description) ELSE {None})
        /\ LET ts == ImportTransactions(file, resolved)
           IN  /\ transactions' = transactions @@
                     [id \in nextId..(nextId + Len(ts) - 1) |->
                         RowOfTransaction(ts[id - nextId + 1])]
               /\ nextId' = nextId + Len(ts)
               /\ deleted' = deleted \ {ts[i].category : i \in DOMAIN ts}
               /\ op' = Call("_import_csv", file, None, Len(ts))
        /\ UNCHANGED <<tables, categories, rules>>

(***************************************************************************)
(* SpecRules: the rule table, resolution and bulk application              *)
(***************************************************************************)
PatA == <<"A">>

PatNetflix == <<"N", "e", "t", "f", "l", "i", "x">>

PatUnderscore == <<"_">>

DescA == <<"A", " ", "t", "r", "a", "n", "s", "a", "c", "t", "i", "o", "n">>

DescNetflix == <<"N", "E", "T", "F", "L", "I", "X", ".", "C", "O", "M">>

DescPercent == <<"1", "0", "0", "%">>

\* The rules a run may add: two rules on one pattern at different and at equal
\* priority, a rule with an amount at tolerance 0.01 and at tolerance 0, a rule of
\* lower priority on the same pattern, and a pattern that is a LIKE wildcard.
RuleInputs ==
    { <<PatA, "X", Null, Null, 5>>,
      <<PatA, "Y", Null, Null, 1>>,
      <<PatA, "Y", Null, Null, 5>>,
      <<PatNetflix, "Subscriptions", <<1599>>, <<1>>, 5>>,
      <<PatNetflix, "Subscriptions", <<1599>>, <<0>>, 5>>,
      <<PatNetflix, "Streaming", Null, Null, 1>>,
      <<PatUnderscore, "Misc", Null, Null, 1>> }

RuleKeys == { <<r[1], r[2]>> : r \in RuleInputs }

\* The transactions a run may add: already categorized by hand, one on each
\* side of the tolerance of the rule with an amount.
RuleTransactions ==
    { [id |-> None, date |-> DateTime(2024, 1, 1, 0, 0, 0, 0),
       amount |-> Money(x[2]), description |-> x[1], category |-> "Food",
       transaction_type |-> "expense", ignored |-> FALSE] :
        x \in { <<DescA, 1600>>, <<DescNetflix, 1600>>, <<DescNetflix, 1602>> } }

NextRules ==
    \/ \E r \in RuleInputs :
          /\ ( \/ Cardinality(rules) < MaxRules
               \/ \E x \in rules : x.pattern = r[1] /\ x.category = r[2] )
          /\ AddCategorizationRule(r[1], r[2], r[3], r[4], r[5])
    \/ \E k \in RuleKeys : DeleteCategorizationRule(k[1], k[2])
    \/ \E t \in RuleTransactions :
          /\ Cardinality(Ids) < MaxRuleTx
          /\ AddTransaction(t)
    \/ \E d \in {DescA, DescPercent} : AutoCategorizeTransaction(d)
    \/ ApplyRulesToExistingTransactions

SpecRules == Init /\ [][NextRules]_vars

(***************************************************************************)
(* Spec: the writes of the transaction and category stores                 *)
(***************************************************************************)
StoreDates ==
    { DateTime(2024, 1, 1, 0, 0, 0, 0), DateTime(2024, 1, 1, 9, 30, 0, 500) }

StoreCategories == {"Food", "Rent"}

\* The transactions a run may add; one of them has no description (a CSV row
\* that ends before its Description field).
StoreTransactions ==
    { [id |-> None, date |-> d, amount |-> Money(1010),
       description |-> DescA, category |-> c,
       transaction_type |-> "expense", ignored |-> FALSE] :
        d \in StoreDates, c \in StoreCategories }
    \cup
    { [id |-> None, date |-> DateTime(2024, 1, 1, 0, 0, 0, 0),
       amount |-> Money(1010), description |-> NullText, category |-> "Food",
       transaction_type |-> "expense", ignored |-> FALSE] }

\* A run inserts at most MaxTx rows: ids are never given twice, so the guard
\* is on the id the next row would get.
\* A call that takes an id names the id 1, which a row has unless it was
\* deleted, or the id the next row will get, which no row has.
Next ==
    \/ \E t \in StoreTransactions :
          /\ nextId <= MaxTx
          /\ AddTransaction(t)
    \/ \E id \in {1, nextId}, c \in StoreCategories :
          UpdateTransactionCategory(id, c)
    \/ \E d \in StoreDates, c \in StoreCategories :
          UpdateTransactionByAttributes(d, Money(1010), DescA, c, "expense")
    \/ \E c \in StoreCategories : DeleteCategory(c)
    \/ GetAllCategories
    \/ \E id \in {1, nextId} : DeleteTransaction(id)
    \/ \E d \in StoreDates :
          DeleteTransactionByAttributes(IsoFormat(d), Money(1010), DescA, "Food",
                                        "expense")
    \/ AddCategorizationRule(PatA, "X", Null, Null, 5)
    \/ ApplyRulesToExistingTransactions

Spec == Init /\ [][Next]_vars

(***************************************************************************)
(* SpecWindows: insertion and the date-window queries                      *)
(***************************************************************************)
Years == {2023, 2024}

\* The dates of the transactions inserted: the two sides of a year boundary,
\* the first instant of a month, a time inside a day, a sub-second part.
WinDates ==
    { DateTime(2023, 12, 1, 0, 0, 0, 0),
      DateTime(2023, 12, 31, 0, 0, 0, 0),
      DateTime(2024, 1, 1, 0, 0, 0, 0),
      DateTime(2024, 2, 1, 5, 0, 0, 0),
      DateTime(2024, 12, 31, 23, 0, 0, 500) }

Groceries == <<"G", "r", "o", "c", "e", "r", "y">>

WinTransactions ==
    { [id |-> None, date |-> d, amount |-> Money(1010),
       description |-> Groceries, category |-> "Food",
       transaction_type |-> ty, ignored |-> ig] :
        d \in WinDates, ty \in {"income", "expense"}, ig \in BOOLEAN }

\* The arguments of the month query: every month, a first and a later day,
\* midnight and a time of day.
QueryDates ==
    { DateTime(y, m, d, h, 0, 0, 0) :
        y \in Years, m \in 1..12, d \in {1, 15}, h \in {0, 10} }

WinQueryDates == { d \in QueryDates : d.month \in {1, 2, 12} }

NextWindows ==
    \/ \E t \in WinTransactions :
          /\ Cardinality(Ids) < MaxWinTx
          /\ AddTransaction(t)
    \/ GetTransactions
    \/ \E d \in WinQueryDates : GetTransactionsForMonth(d)
    \/ \E y \in Years : GetTransactionsForYear(y)

SpecWindows == Init /\ [][NextWindows]_vars

(***************************************************************************)
(* SpecAggregates: the ignored flag and the totals                         *)
(***************************************************************************)
MaxAggTx == 2

\* Two days of one month and a day of the next, one of them with a time of
\* day, which the list does not show, and a day of the year before.
AggDates ==
    { DateTime(2024, 1, 5, 0, 0, 0, 0), DateTime(2024, 1, 20, 9, 30, 0, 0),
      DateTime(2024, 2, 1, 0, 0, 0, 0), DateTime(2023, 6, 1, 0, 0, 0, 0) }

\* Amounts that a binary double holds exactly.
AggTransactions ==
    { [id |-> None, date |-> d, amount |-> Money(a),
       description |-> Groceries, category |-> "Food",
       transaction_type |-> ty, ignored |-> FALSE] :
        d \in AggDates, a \in {1000, 2500}, ty \in {"income", "expense"} }

NextAggregates ==
    \/ \E t \in AggTransactions :
          /\ nextId <= MaxAggTx
          /\ AddTransaction(t)
    \/ \E id \in Ids : ToggleIgnoredSelected(id)
    \/ GetCategoryTotals
    \/ \E c \in {None, "Food"} : GetMonthlyTotals(2024, c)
    \/ CalculateCategoryTotals(2024)
    \/ RefreshComparison(2024)
    \/ \E now \in {DateTime(2024, 1, 15, 0, 0, 0, 0),
                     DateTime(2024, 2, 15, 0, 0, 0, 0)} : UpdateTotals(now)

SpecAggregates == Init /\ [][NextAggregates]_vars

(***************************************************************************)
(* SpecSchema: opening a store file                                        *)
(***************************************************************************)
MaxFileTx == 1

\* The rules a store file may hold.
FileRules ==
    { <<PatA, "X", Null, Null, 5>>,
      <<PatA, "Y", Null, <<DefaultTolerance>>, 1>>,
      <<PatNetflix, "Subscriptions", <<1599>>, <<5>>, 3>> }

RuleRow(x) ==
    [pattern |-> x[1], category |-> x[2], amount |-> x[3],
     tolerance |-> x[4], priority |-> x[5]]

\* The row of a rule table without the amount columns.
OldRuleRow(x) == [pattern |-> x[1], category |-> x[2], priority |-> x[5]]

\* The store files a program start may find: a new file without tables, a
\* file written when the rule table had no amount, a file of the current
\* schema; the two latter with or without the categories table, with rules
\* and transactions.
InitSchema ==
    \E shape \in {"fresh", "old", "current"}, rs \in SUBSET FileRules,
       withCategories \in BOOLEAN, n \in 0..MaxFileTx :
        /\ shape = "fresh" => (rs = {} /\ ~withCategories /\ n = 0)
        /\ tables =
              IF shape = "fresh" THEN << >>
              ELSE [t \in {"transactions", "categorization_rules"}
                             \cup (IF withCategories THEN {"categories"} ELSE {})
                    |-> IF shape = "old" /\ t = "categorization_rules"
                        THEN OldRuleColumns ELSE CurrentSchema[t]]
        /\ rules = IF shape = "old" THEN {OldRuleRow(x) : x \in rs}
                   ELSE {RuleRow(x) : x \in rs}
        /\ transactions =
              [id \in 1..n |->
                  [date |-> IsoFormat(DateTime(2024, 1, id, 0, 0, 0, 0)),
                   amount |-> 1010, description |-> DescA, category |-> "Food",
                   transaction_type |-> "expense", ignored |-> FALSE]]
        /\ nextId = n + 1
        /\ categories =
              IF withCategories /\ n > 0
              THEN [c \in {"Food"} |-> [budget_goal |-> <<50000>>, tags |-> Null]]
              ELSE << >>
        /\ deleted = {}
        /\ op = NoOp

\* A Database object exists: the last construction returned.
Constructed ==
    /\ op.name # "init"
    /\ ~(op.name = "_create_tables" /\ op.error # None)

\* Every start of the program constructs Database; between two starts the
\* program may change a rule.
NextSchema ==
    \/ CreateTables
    \/ /\ Constructed
       /\ AddCategorizationRule(PatNetflix, "Streaming", <<1599>>, <<0>>, 1)
    \/ /\ Constructed
       /\ DeleteCategorizationRule(PatA, "X")

SpecSchema == InitSchema /\ [][NextSchema]_vars

(***************************************************************************)
(* SpecRuleEntry: the ways a rule gets into and out of the rule table      *)
(***************************************************************************)
MaxEntryRules == 2

\* What may be typed as a pattern: nothing, a blank, a text, a text between
\* blanks.
EntryPatterns == { <<>>, <<" ">>, PatA, <<" ", "A", " ">> }

\* A rule fits when the table is below the bound or holds a rule that the
\* new one replaces.
RuleFits(pattern, category) ==
    \/ Cardinality(rules) < MaxEntryRules
    \/ \E r \in rules : r.pattern = pattern /\ r.category = category

NextRuleEntry ==
    \/ \E p \in EntryPatterns, c \in {"", "X", "Y"}, a \in {Null, <<1599>>},
          pr \in {0, 5} :
          /\ RuleFits(Strip(p), c)
          /\ RulesWindowAddRule(p, c, a, <<1>>, pr)
    \/ \E p \in EntryPatterns, c \in {"X", "Y"}, t \in {Null, <<5>>} :
          /\ RuleFits(Strip(p), c)
          /\ RuleDialogSubmit(p, c, <<1599>>, t, 0)
    \/ \E p \in EntryPatterns :
          /\ RuleFits(p, "X")
          /\ AddCategorizationRule(p, "X", Null, Null, 1)
    \/ \E r \in rules : RulesWindowDeleteRule(r)

SpecRuleEntry == Init /\ [][NextRuleEntry]_vars

(***************************************************************************)
(* SpecInput: the input form and the CSV import                            *)
(***************************************************************************)
MaxInputTx == 2

\* What may be typed as an amount: a text that is no number, a negative, a
\* zero and a positive amount.
AmountEntries == { Null, <<0 - 500>>, <<0>>, <<1010>> }

\* The rows of a CSV file: a charge and a payment, with and without a Type, a
\* row whose amount or date cannot be read, a row that ends before its last
\* field, the Type or the Description.
CsvRows ==
    { [Date |-> <<DateTime(2025, 1, 2, 0, 0, 0, 0)>>, Amount |-> a,
       Description |-> DescA, Type |-> ty] :
         a \in {<<0 - 38200>>, <<5000>>}, ty \in {"Daycare", ""} }
    \cup
    { [Date |-> <<DateTime(2025, 1, 2, 0, 0, 0, 0)>>, Amount |-> Null,
       Description |-> DescA, Type |-> "Daycare"],
      [Date |-> Null, Amount |-> <<0 - 38200>>,
       Description |-> DescA, Type |-> "Daycare"],
      [Date |-> <<DateTime(2025, 1, 2, 0, 0, 0, 0)>>, Amount |-> <<0 - 38200>>,
       Description |-> DescA, Type |-> None],
      [Date |-> <<DateTime(2025, 1, 2, 0, 0, 0, 0)>>, Amount |-> <<0 - 38200>>,
       Description |-> NullText, Type |-> "Daycare"] }

\* The files of at most MaxInputTx rows.
CsvFiles ==
    UNION { [1..n -> CsvRows] : n \in 0..MaxInputTx }

NextInput ==
    \/ \E a \in AmountEntries, d \in {<<>>, DescA, <<" ", "A", " ">>},
          c \in {"", "Food"}, ty \in {"income", "expense"} :
          /\ nextId <= MaxInputTx
          /\ MainWindowAddTransaction(a, d, c, ty,
                                      DateTime(2025, 1, 15, 10, 30, 0, 500))
    \/ \E file \in CsvFiles :
          /\ nextId + Len(file) <= MaxInputTx + 1
          /\ ImportCsv(file)
    \/ AddCategorizationRule(PatA, "X", Null, Null, 5)

SpecInput == Init /\ [][NextInput]_vars

(***************************************************************************)
(* SpecBudget: goals, tags, the budget summary and the projection          *)
(***************************************************************************)
MaxBudgetTx == 1

\* def _project_future_months(self, num_months: int = 6)
DefaultMonths == 6

TagIncome == <<"I", "n", "c", "o", "m", "e">>

TagRevenue == <<"R", "e", "v", "e", "n", "u", "e">>

TagFixed == <<"f", "i", "x", "e", "d">>

\* The goal, in cents, and the tags a run may give each category.
BudgetInputs ==
    { <<"Salary", 300000, TagIncome>>, <<"Sales", 120000, TagRevenue>>,
      <<"Rent", 100000, TagFixed>> }

\* A payment dated the first instant of a month, as the CSV import dates it,
\* and a charge later in the month.
BudgetTransactions ==
    { [id |-> None, date |-> DateTime(2024, 1, 1, 0, 0, 0, 0),
       amount |-> Money(1000), description |-> Groceries, category |-> "Salary",
       transaction_type |-> "income", ignored |-> FALSE],
      [id |-> None, date |-> DateTime(2024, 1, 20, 0, 0, 0, 0),
       amount |-> Money(2500), description |-> Groceries, category |-> "Rent",
       transaction_type |-> "expense", ignored |-> FALSE] }

\* The days a graphing window may be built: inside a month, on its last and
\* on its first day, in December.
WindowDates ==
    { DateTime(2024, 1, 15, 0, 0, 0, 0), DateTime(2024, 1, 31, 10, 0, 0, 0),
      DateTime(2024, 3, 1, 0, 0, 0, 0), DateTime(2024, 12, 15, 0, 0, 0, 0) }

NextBudget ==
    \/ \E x \in BudgetInputs : SetBudgetGoal(x[1], Money(x[2]))
    \/ \E x \in BudgetInputs : SetCategoryTags(x[1], x[3])
    \/ \E t \in BudgetTransactions :
          /\ nextId <= MaxBudgetTx
          /\ AddTransaction(t)
    \/ \E now \in {DateTime(2024, 1, 15, 0, 0, 0, 0),
                     DateTime(2024, 1, 15, 10, 30, 0, 0)} : UpdateTotals(now)
    \/ \E d \in WindowDates, n \in 1..DefaultMonths : ProjectFutureMonths(d, n)

SpecBudget == Init /\ [][NextBudget]_vars

(***************************************************************************)
(* SpecLifecycle: a store file opened and then written through every       *)
(* operation of the store                                                  *)
(***************************************************************************)
LifeTransaction ==
    [id |-> None, date |-> DateTime(2024, 1, 1, 0, 0, 0, 0),
     amount |-> Money(1010), description |-> DescA, category |-> "Rent",
     transaction_type |-> "expense", ignored |-> FALSE]

\* A call names the id 1, which a row has unless it was deleted, or the id
\* the next row will get, which no row has.
NextLifecycle ==
    \/ CreateTables
    \/ /\ Constructed
       /\ nextId <= MaxFileTx + 1
       /\ AddTransaction(LifeTransaction)
    \/ /\ Constructed
       /\ \E id \in {1, nextId}, c \in {"Food", "Rent"} :
             UpdateTransactionCategory(id, c)
    \/ /\ Constructed
       /\ AddCategory("Food")
    \/ /\ Constructed
       /\ SetBudgetGoal("Food", Money(50000))
    \/ /\ Constructed
       /\ SetCategoryTags("Food", TagFixed)
    \/ /\ Constructed
       /\ DeleteCategory("Food")
    \/ /\ Constructed
       /\ AddCategorizationRule(PatA, "X", Null, Null, 5)
    \/ /\ Constructed
       /\ DeleteCategorizationRule(PatA, "X")
    \/ /\ Constructed
       /\ ApplyRulesToExistingTransactions
    \/ /\ Constructed
       /\ \E id \in {1, nextId} : DeleteTransaction(id)
    \/ /\ Constructed
       /\ DeleteTransactionByAttributes(IsoFormat(LifeTransaction.date),
                                        Money(1010), DescA, "Rent", "expense")

\* The store files of the lifecycle runs: those of InitSchema whose rules all
\* have the pattern of the descriptions these runs insert.
InitLifecycle ==
    /\ InitSchema
    /\ \A r \in rules : r.pattern = PatA

SpecLifecycle == InitLifecycle /\ [][NextLifecycle]_vars

(***************************************************************************)
(* Calendar order, used to state the claims: the order of the instants,    *)
(* not of the stored texts.                                                *)
(***************************************************************************)
Fields(d) ==
    <<d.year, d.month, d.day, d.hour, d.minute, d.second, d.microsecond>>

Before(a, b) ==
    \E i \in 1..7 :
        /\ \A j \in 1..(i - 1) : Fields(a)[j] = Fields(b)[j]
        /\ Fields(a)[i] < Fields(b)[i]

FirstOfMonth(d) == DateTime(d.year, d.month, 1, 0, 0, 0, 0)

FirstOfNextMonth(d) ==
    IF d.month = 12 THEN DateTime(d.year + 1, 1, 1, 0, 0, 0, 0)
    ELSE DateTime(d.year, d.month + 1, 1, 0, 0, 0, 0)

\* The instant a stored row is dated.
Instant(id) == FromIsoFormat(transactions[id].date)

\* The rows dated in [from, to).
RowsDatedIn(from, to) ==
    {id \in Ids : ~Before(Instant(id), from) /\ Before(Instant(id), to)}

ResultIds(result) == {result[i].id : i \in DOMAIN result}

Ascending(result) ==
    \A i, j \in DOMAIN result : i < j => ~Before(result[j].date, result[i].date)

NoRepeat(result) ==
    \A i, j \in DOMAIN result : i # j => result[i].id # result[j].id

\* t and u agree on every field but id.
EqualButId(t, u) ==
    /\ t.date = u.date
    /\ t.amount = u.amount
    /\ t.description = u.description
    /\ t.category = u.category
    /\ t.transaction_type = u.transaction_type
    /\ t.ignored = u.ignored

\* C1: after add_transaction(t), get_transactions() succeeds and returns a
\* transaction equal to t in date, amount, description, category,
\* transaction_type and ignored.
C1_AddThenListAll ==
    (op.name = "get_transactions" /\ op.arg.added # <<>>) =>
        /\ op.error = None
        /\ \E i \in DOMAIN op.result : EqualButId(op.result[i], op.arg.added[1])

\* C3: get_transactions_for_month(d) returns exactly the stored transactions
\* dated in [first day of d's month 00:00, first day of the next month 00:00),
\* in ascending date order, for any day and time of day of d.
C3_MonthWindow ==
    op.name = "get_transactions_for_month" =>
        /\ ResultIds(op.result) =
              RowsDatedIn(FirstOfMonth(op.arg), FirstOfNextMonth(op.arg))
        /\ NoRepeat(op.result)
        /\ Ascending(op.result)

\* C4: for every year Y and every choice of one argument per month of Y, the
\* twelve month results are pairwise disjoint and their union is the year
\* result.  Stated without enumerating the choices: results of two different
\* months never share a row, every month result lies within the year result,
\* and every row of the year result belongs to some month whose result holds
\* it whatever argument of that month is chosen (were there a missing argument
\* in every month, the choice of those twelve would lose the row).
C4_MonthsPartitionYear ==
    \A y \in Years :
        LET args(m) == {d \in QueryDates : d.year = y /\ d.month = m}
        IN  /\ \A m1, m2 \in 1..12 :
                  m1 # m2 =>
                     \A d1 \in args(m1), d2 \in args(m2) :
                         MonthRows(d1) \cap MonthRows(d2) = {}
            /\ \A m \in 1..12 : \A d \in args(m) : MonthRows(d) \subseteq YearRows(y)
            /\ \A id \in YearRows(y) :
                  \E m \in 1..12 : \A d \in args(m) : id \in MonthRows(d)

Dec31 == DateTime(2023, 12, 31, 0, 0, 0, 0)

Jan1 == DateTime(2024, 1, 1, 0, 0, 0, 0)

Dec15 == DateTime(2023, 12, 15, 0, 0, 0, 0)

\* The scenario's store: one transaction dated 2023-12-31, one 2024-01-01.
ScenarioStored ==
    /\ Cardinality(Ids) = 2
    /\ \E id \in Ids : Instant(id) = Dec31
    /\ \E id \in Ids : Instant(id) = Jan1

\* C5: get_transactions_for_year(Y) returns exactly the stored transactions
\* dated in [1 Jan Y 00:00, 1 Jan Y+1 00:00), in ascending date order; with
\* transactions dated 2023-12-31 and 2024-01-01 stored, the month query for
\* 2023-12-15 returns only the first and the year query for 2024 only the
\* second.
C5_YearWindow ==
    /\ op.name = "get_transactions_for_year" =>
          /\ ResultIds(op.result) =
                RowsDatedIn(DateTime(op.arg, 1, 1, 0, 0, 0, 0),
                            DateTime(op.arg + 1, 1, 1, 0, 0, 0, 0))
          /\ NoRepeat(op.result)
          /\ Ascending(op.result)
    /\ (ScenarioStored /\ op.name = "get_transactions_for_year" /\ op.arg = 2024) =>
          (Len(op.result) = 1 /\ op.result[1].date = Jan1)
    /\ (ScenarioStored /\ op.name = "get_transactions_for_month" /\ op.arg = Dec15) =>
          (Len(op.result) = 1 /\ op.result[1].date = Dec31)

\* The scenario of C5 has run: both transactions are stored and the year
\* query for 2024 has returned one of them.
C5_Witness ==
    /\ ScenarioStored
    /\ op.name = "get_transactions_for_year"
    /\ op.arg = 2024
    /\ Len(op.result) = 1

(***************************************************************************)
(* Claims on the schema setup (SpecSchema)                                 *)
(***************************************************************************)
\* C16: constructing Database on a store that has none of the tables
\* completes without error and leaves the transactions, categories and
\* categorization_rules tables present.
C16_FreshStoreGetsTables ==
    (op.name = "_create_tables" /\ DOMAIN op.arg.tables = {}) =>
        /\ op.error = None
        /\ DOMAIN tables = {"transactions", "categories", "categorization_rules"}

\* C17: when the schema is current, _create_tables changes nothing: the
\* tables and all rows of transactions, categories and categorization_rules,
\* with each rule's amount and tolerance, are as they were.
C17_CurrentSchemaUntouched ==
    (op.name = "_create_tables" /\ op.arg.tables = CurrentSchema) =>
        /\ op.error = None
        /\ tables = op.arg.tables
        /\ transactions = op.arg.transactions
        /\ categories = op.arg.categories
        /\ rules = op.arg.rules

\* A store of the current schema that holds a transaction, a category and a
\* rule with an amount has been opened.
C17_Witness ==
    /\ op.name = "_create_tables"
    /\ op.arg.tables = CurrentSchema
    /\ op.arg.transactions # << >>
    /\ op.arg.categories # << >>
    /\ \E r \in op.arg.rules : r.amount # Null /\ r.tolerance # Null

\* The store opened had a rule table without the amount column.
OldShapeOpened ==
    /\ op.name = "_create_tables"
    /\ "categorization_rules" \in DOMAIN op.arg.tables
    /\ "amount" \notin op.arg.tables["categorization_rules"]

\* C18: when the rule table has no amount column, after _create_tables it
\* has the current columns and holds exactly the old rules, each with its
\* pattern, category and priority, no amount and the default tolerance; none
\* is lost, none added.
C18_MigrationKeepsRules ==
    OldShapeOpened =>
        /\ op.error = None
        /\ tables["categorization_rules"] = CurrentSchema["categorization_rules"]
        /\ Cardinality(rules) = Cardinality(op.arg.rules)
        /\ rules = {[pattern |-> r.pattern, category |-> r.category,
                     amount |-> Null, tolerance |-> <<1>>,
                     priority |-> r.priority] : r \in op.arg.rules}

\* A rule table of the old shape with several rules has been migrated.
C18_Witness ==
    /\ OldShapeOpened
    /\ Cardinality(op.arg.rules) >= 2
    /\ "amount" \in tables["categorization_rules"]

(***************************************************************************)
(* Claims on the rule table (SpecRuleEntry)                                *)
(***************************************************************************)
RuleKey(r) == <<r.pattern, r.category>>

\* The call has stored a rule.
StoredRule(call) ==
    /\ call.name \in {"add_categorization_rule", "_add_rule", "on_submit"}
    /\ call.error = None

\* The pair of the rule the call stored.
StoredKey(call) ==
    IF call.name = "add_categorization_rule" THEN call.arg
    ELSE <<call.arg.pattern, call.arg.category>>

\* C19: no two stored rules share a (pattern, category) pair; storing a rule
\* leaves exactly one rule of its pair and the rules of other pairs as they
\* were, whether or not the pair was stored; delete_categorization_rule
\* removes the rule of the pair and no other.
C19_RuleIdentity ==
    /\ [](\A r1, r2 \in rules : RuleKey(r1) = RuleKey(r2) => r1 = r2)
    /\ [][StoredRule(op') =>
              /\ Cardinality({r \in rules' : RuleKey(r) = StoredKey(op')}) = 1
              /\ {r \in rules' : RuleKey(r) # StoredKey(op')}
                    = {r \in rules : RuleKey(r) # StoredKey(op')}]_vars
    /\ [][op'.name = "delete_categorization_rule" =>
              rules' = {r \in rules : RuleKey(r) # op'.arg}]_vars

\* A rule has been stored over a rule of the same pair, beside a rule of
\* another pair.
C19_Witness ==
    /\ op.name = "_add_rule"
    /\ op.error = None
    /\ op.arg.existed
    /\ Cardinality(rules) = 2
    /\ Cardinality({r \in rules : RuleKey(r) = StoredKey(op)}) = 1

\* C20: no stored rule has an empty or blank pattern, whichever way rules
\* are created: the rules panel, the create-rule dialog,
\* add_categorization_rule itself.
C20_NoEmptyPattern ==
    \A r \in rules : Strip(r.pattern) # <<>>

(***************************************************************************)
(* Claims on the rule engine (SpecRules)                                   *)
(***************************************************************************)
\* The pattern is a case-insensitive substring of the description.
PatternIn(pattern, description) == Contains(Lower(pattern), Lower(description))

\* C6: auto_categorize_transaction returns the category of a rule of highest
\* priority among the rules whose pattern is a case-insensitive substring of
\* the description, and None when there is no such rule; with rules
\* (A, X, 5) and (A, Y, 1), "A transaction" resolves to X.
C6_ResolveByPriority ==
    op.name = "auto_categorize_transaction" =>
        LET matching == {r \in rules : PatternIn(r.pattern, op.arg.description)}
        IN  /\ matching = {} => op.result = None
            /\ matching # {} =>
                  \E r \in matching :
                      /\ op.result = r.category
                      /\ \A q \in matching : q.priority <= r.priority
            /\ ( /\ op.arg.description = DescA
                 /\ {<<r.pattern, r.category, r.priority>> : r \in rules}
                       = {<<PatA, "X", 5>>, <<PatA, "Y", 1>>} )
                  => op.result = "X"

\* C7: two resolutions of the same description with no change of the rules in
\* between return the same category, also when matching rules of different
\* categories share the highest priority.
C7_ResolveDeterministic ==
    (op.name = "auto_categorize_transaction" /\ op.arg.again # <<>>) =>
        op.result = op.arg.again[1]

\* The tolerance of a rule as stored, a NULL tolerance being the default 0.01.
RuleTolerance(r) == IF r.tolerance = Null THEN 1 ELSE r.tolerance[1]

\* C8's matching: the pattern is in the description and, when the rule has an
\* amount, |transaction amount - rule amount| <= rule tolerance.
MatchesWithinTolerance(r, row) ==
    /\ PatternIn(r.pattern, row.description)
    /\ r.amount # Null => Abs(row.amount - r.amount[1]) <= RuleTolerance(r)

\* C8: bulk application treats a rule as matching a transaction exactly when
\* the pattern matches and the amount, if the rule has one, is within the
\* rule's tolerance, bounds included: every row ends with the category of the
\* first rule, in the order fetched, that matches in this sense, and keeps its
\* category when none does.
C8_AmountTolerance ==
    op.name = "apply_rules_to_existing_transactions" =>
        \A id \in DOMAIN op.arg.before :
            LET row == op.arg.before[id]
                order == op.arg.order
                hits == {i \in DOMAIN order : MatchesWithinTolerance(order[i], row)}
            IN  IF hits = {}
                THEN transactions[id].category = row.category
                ELSE transactions[id].category =
                        order[CHOOSE i \in hits : \A j \in hits : i <= j].category

\* C9: when apply_rules_to_existing_transactions runs twice in succession, the
\* second run counts 0 updates.
C9_SecondRunCountsNothing ==
    (op.name = "apply_rules_to_existing_transactions" /\ op.arg.repeated) =>
        op.result = 0

C27_BulkAgreesWithSingle ==
    (op.name = "apply_rules_to_existing_transactions" /\ op.error = None) =>
        \A id \in DOMAIN op.arg.before :
            LET row == op.arg.before[id]
                matched == \E i \in DOMAIN op.arg.order :
                              RuleMatches(op.arg.order[i], row)
            IN  /\ matched <=> Resolutions(row.description) # {None}
                /\ matched =>
                      transactions[id].category \in Resolutions(row.description)
                /\ ~matched => transactions[id] = row

(***************************************************************************)
(* Claims on the writes of the store (Spec)                                *)
(***************************************************************************)
\* C11: when apply_rules_to_existing_transactions fails part-way through the
\* pass, none of the category updates made earlier in that pass is visible
\* afterwards: the transactions table is exactly as it was before the call.
C11_FailedPassLeavesNoUpdate ==
    (op.name = "apply_rules_to_existing_transactions" /\ op.error # None) =>
        transactions = op.arg.before

\* A pass has failed after it had changed the category of an earlier row.
C11_Witness ==
    /\ op.name = "apply_rules_to_existing_transactions"
    /\ op.error = "AttributeError"
    /\ \E id \in op.arg.processed :
          \E i \in DOMAIN op.arg.order :
              /\ RuleMatches(op.arg.order[i], op.arg.before[id])
              /\ op.arg.order[i].category # op.arg.before[id].category

\* C12: update_transaction_by_attributes raises exactly when no stored
\* transaction has the date, amount, description and transaction_type given;
\* when some have, it returns and every one of them carries the new category.
C12_UpdateByAttributesFindsMatches ==
    op.name = "update_transaction_by_attributes" =>
        LET matching == {id \in Ids :
                            /\ Instant(id) = op.arg[1]
                            /\ transactions[id].amount = op.arg[2].cents
                            /\ transactions[id].description = op.arg[3]
                            /\ transactions[id].transaction_type = op.arg[5]}
        IN  /\ matching = {} <=> op.error # None
            /\ \A id \in matching : transactions[id].category = op.arg[4]

\* The rows a deletion was asked to remove, among the rows as they were.
DeletionMatches ==
    LET before == op.arg.before
    IN  IF op.name = "delete_transaction"
        THEN {id \in DOMAIN before : id = op.arg.id}
        ELSE {id \in DOMAIN before :
                 /\ before[id].date = op.arg.date
                 /\ before[id].amount = op.arg.amount.cents
                 /\ before[id].description = op.arg.description
                 /\ before[id].category = op.arg.category
                 /\ before[id].transaction_type = op.arg.transaction_type}

\* C13: delete_transaction and delete_transaction_by_attributes remove
\* exactly one row when a match exists, also when several stored transactions
\* share the attributes, remove nothing otherwise, leave the other rows as they
\* were, and return the number of rows affected.
C13_DeleteOneAndReport ==
    op.name \in {"delete_transaction", "delete_transaction_by_attributes"} =>
        LET before == op.arg.before
            removed == (DOMAIN before) \ Ids
        IN  /\ Ids \subseteq DOMAIN before
            /\ \A id \in Ids : transactions[id] = before[id]
            /\ removed \subseteq DeletionMatches
            /\ Cardinality(removed) = IF DeletionMatches = {} THEN 0 ELSE 1
            /\ op.result = <<Cardinality(removed)>>

TotalAt(totals, key) == IF key \in DOMAIN totals THEN totals[key] ELSE 0

\* The cents of the rows of `ids` that are not ignored and are of the type.
CountedCents(ids, type) ==
    SumOver({id \in ids : /\ ~transactions[id].ignored
                          /\ transactions[id].transaction_type = type},
            [id \in Ids |-> transactions[id].amount])

\* C15: an ignored transaction contributes zero to every aggregate, whatever
\* its type: each category total, the monthly actual income and expenses, the
\* year's category totals and each monthly net total are the sums over the
\* transactions that are not ignored.
C15_IgnoredCountForNothing ==
    /\ op.name = "get_category_totals" =>
          \A c \in {"Food"} :
              TotalAt(op.result, c) =
                 CountedCents({id \in Ids : transactions[id].category = c},
                              "expense")
    /\ op.name = "_update_totals" =>
          LET ids == MonthRows([op.arg EXCEPT !.day = 1])
          IN  /\ op.result.actual_income = CountedCents(ids, "income")
              /\ op.result.actual_expenses = CountedCents(ids, "expense")
    /\ op.name = "_calculate_category_totals" =>
          \A c \in {"Food"} :
              TotalAt(op.result, c) =
                 CountedCents({id \in YearRows(op.arg) :
                                  transactions[id].category = c}, "expense")
    /\ op.name = "_get_monthly_totals" =>
          \A m \in 1..12 :
              LET ids == {id \in YearRows(op.arg.year) :
                             /\ Instant(id).month = m
                             /\ op.arg.category \in
                                   {None, transactions[id].category}}
              IN  TotalAt(op.result, <<op.arg.year, m>>) =
                     CountedCents(ids, "income") - CountedCents(ids, "expense")

\* C21: update_transaction_category(id, new_category) returns; the
\* transaction of that id has the new category and every other field as
\* before, no other transaction changes, none is added or removed;
\* new_category is a row of the categories table afterwards; every category
\* row that existed, the one of new_category included, keeps its budget_goal
\* and tags, and no other row is added.
C21_UpdateCategoryById ==
    [][op'.name = "update_transaction_category" =>
          /\ op'.error = None
          /\ DOMAIN transactions' = DOMAIN transactions
          /\ \A id \in DOMAIN transactions :
                transactions'[id] =
                   IF id = op'.arg[1]
                   THEN [transactions[id] EXCEPT !.category = op'.arg[2]]
                   ELSE transactions[id]
          /\ op'.arg[2] \in DOMAIN categories'
          /\ DOMAIN categories' = (DOMAIN categories) \cup {op'.arg[2]}
          /\ \A c \in DOMAIN categories : categories'[c] = categories[c]]_vars

\* A transaction has been moved to a category whose row has a goal and tags,
\* while another transaction is stored.
C21_Witness ==
    /\ op.name = "update_transaction_category"
    /\ op.arg[1] \in Ids
    /\ transactions[op.arg[1]].category = op.arg[2]
    /\ op.arg[2] \in DOMAIN categories
    /\ categories[op.arg[2]].budget_goal # Null
    /\ categories[op.arg[2]].tags # Null
    /\ \E id \in Ids : transactions[id].category # op.arg[2]

\* C26: the set of stored transaction ids loses an id only in a step that
\* is delete_transaction or delete_transaction_by_attributes; schema setup
\* with the rule migration, the category writes, the rule writes, the
\* category updates and bulk rule application leave the set as it was.
C26_OnlyDeleteRemoves ==
    /\ [][\/ DOMAIN transactions \subseteq DOMAIN transactions'
          \/ op'.name \in {"delete_transaction",
                            "delete_transaction_by_attributes"}]_vars
    /\ [][op'.name \in {"_create_tables", "add_category", "set_budget_goal",
                         "set_category_tags", "delete_category",
                         "add_categorization_rule", "delete_categorization_rule",
                         "update_transaction_category",
                         "apply_rules_to_existing_transactions"}
             => DOMAIN transactions' = DOMAIN transactions]_vars

\* A store file that holds a transaction and rules of the old shape has been
\* opened and its rule table migrated.
C26_Witness ==
    /\ OldShapeOpened
    /\ op.error = None
    /\ op.arg.rules # {}
    /\ op.arg.transactions # << >>
    /\ DOMAIN transactions = DOMAIN op.arg.transactions

\* C29: when update_transaction_by_attributes raises because no transaction
\* matches, the transactions table and the categories table are as they were
\* before the call; the category named is not left behind as a new row.
C29_FailedUpdateLeavesStore ==
    [][(op'.name = "update_transaction_by_attributes" /\ op'.error # None) =>
          /\ transactions' = transactions
          /\ categories' = categories]_vars

\* An update-by-match has failed with transactions stored, and the category
\* it named has no row.
C29_Witness ==
    /\ op.name = "update_transaction_by_attributes"
    /\ op.error = "No matching transaction found"
    /\ Ids # {}
    /\ op.arg[4] \notin DOMAIN categories

\* C25: every stored transaction has a non-negative amount, whether the
\* input form or the CSV import created it; the direction of the cash flow
\* is in transaction_type alone.
C25_AmountsNonNegative ==
    \A id \in Ids : transactions[id].amount >= 0

\* C22: the year comparison completes without a division by zero, and it
\* reports the percentage change as "N/A" whenever the prior year's total is
\* exactly zero, in each category row and in the overall total.
C22_NoPriorYearIsNA ==
    op.name = "_refresh_comparison" =>
        /\ op.error = None
        /\ \A c \in DOMAIN op.result.rows :
              op.result.rows[c].last_year = 0 =>
                 op.result.rows[c].percent = PercentNA
        /\ op.result.total.last_year = 0 =>
              op.result.total.percent = PercentNA

(***************************************************************************)
(* Claims on the budget summary and the projection (SpecBudget)            *)
(***************************************************************************)
\* The categories that have a budget goal.
Configured == {c \in DOMAIN categories : categories[c].budget_goal # Null}

\* The goals, in cents.
GoalOf == [c \in Configured |-> categories[c].budget_goal[1]]

\* The tags of the category hold an income-like tag: "income" or "revenue",
\* in any case.
HasIncomeLikeTag(c) ==
    \E w \in {TextIncome, TextRevenue} : Contains(w, Lower(categories[c].tags))

\* The sum of the income goals less the sum of all the other goals.
GoalsNet ==
    SumOver({c \in Configured : HasIncomeLikeTag(c)}, GoalOf)
      - SumOver({c \in Configured : ~HasIncomeLikeTag(c)}, GoalOf)

\* C23: in the budget summary every configured goal is in exactly one
\* bucket, the income bucket when the tags of its category hold an income-like
\* tag and the expense bucket otherwise, so the two buckets add up to the sum
\* of all goals; actual income and actual expenses are the sums of the
\* amounts of the income and the expense transactions of the month that are
\* not ignored; each balance is income less expense.
C23_BudgetVersusActual ==
    op.name = "_update_totals" =>
        LET month == RowsDatedIn(FirstOfMonth(op.arg), FirstOfNextMonth(op.arg))
        IN  /\ op.result.budget_income =
                  SumOver({c \in Configured : HasIncomeLikeTag(c)}, GoalOf)
            /\ op.result.budget_expense =
                  SumOver({c \in Configured : ~HasIncomeLikeTag(c)}, GoalOf)
            /\ op.result.budget_income + op.result.budget_expense =
                  SumOver(Configured, GoalOf)
            /\ op.result.actual_income = CountedCents(month, "income")
            /\ op.result.actual_expenses = CountedCents(month, "expense")
            /\ op.result.budget_balance =
                  op.result.budget_income - op.result.budget_expense
            /\ op.result.actual_balance =
                  op.result.actual_income - op.result.actual_expenses

C28_SameIncomeClassification ==
    op.name \in {"_update_totals", "_project_future_months"} =>
        /\ \A c \in DOMAIN BudgetGoals :
              SummaryCountsAsIncome(c) <=> ProjectionCountsAsIncome(c)
        /\ op.name = "_update_totals" =>
              op.result.budget_balance = MonthlyBudgetNet
        /\ op.name = "_project_future_months" =>
              op.result[1].value =
                 SumOver({c \in DOMAIN GoalEntries : SummaryCountsAsIncome(c)},
                         GoalEntries)
                   - SumOver({c \in DOMAIN GoalEntries : ~SummaryCountsAsIncome(c)},
                             GoalEntries)

\* The calendar month k months after the month <<year, month>>.
MonthAfter(key, k) ==
    LET m == key[1] * 12 + (key[2] - 1) + k
    IN  <<m \div 12, (m % 12) + 1>>

\* C30: the month keys _project_future_months(n) returns are n consecutive
\* calendar months that begin with the month of the start date: the i-th is
\* the month i - 1 months after it, none twice, none left out.
C30_ConsecutiveMonths ==
    op.name = "_project_future_months" =>
        /\ Len(op.result) = op.arg.num_months
        /\ \A i \in DOMAIN op.result :
              op.result[i].month_key =
                 MonthAfter(<<op.arg.current_date.year,
                              op.arg.current_date.month>>, i - 1)

\* C2: after any sequence of store writes, every category carried by a stored
\* transaction is a row of the categories table, unless delete_category
\* removed it after the write that put it there.
C2_CategoriesInUseExist ==
    \A id \in Ids :
        transactions[id].category \in (DOMAIN categories) \cup deleted

====
